---- MODULE Spec2Model ----
(***************************************************************************)
(* Master/slave log replication of the bfs nameserver                      *)
(* (src/src/nameserver/master_slave.cc, class MasterSlaveImpl).            *)
(*                                                                         *)
(* Two instances of MasterSlaveImpl run, one per node.  The state of an    *)
(* instance is one record of `node`; its fields carry the names of the     *)
(* members of the class.  current_offset_, applied_offset_, sync_offset_,  *)
(* master_only_ and the log file are read or written outside mu_ (lines    *)
(* 103-111, 130, 192-196, 237, 283), so holding mu_ does not keep another  *)
(* thread from them.  A step of a thread therefore holds at most one       *)
(* access to a member or file that another thread can access at that       *)
(* moment: regions between mu_.Lock() and mu_.Unlock() are cut at every    *)
(* such access, x += y and x = y are a load and a store, and AppendLog,    *)
(* which takes no lock, is cut at every access to the log file and to a    *)
(* member.  Statements that work on locals, or on members that only        *)
(* holders of mu_ access, stay in the step of the access before them.      *)
(***************************************************************************)
EXTENDS Integers, Sequences, FiniteSets, TLC

VARIABLES
    node,   \* node[n]: the MasterSlaveImpl instance of node n and its threads
    link,   \* TRUE while RPCs between the two nodes get through
    outages, \* how often the connection has failed so far
    last    \* history variable: the commit report the last step completed

vars == <<node, link, outages, last>>

(***************************************************************************)
(* Bounds of the model.                                                    *)
(***************************************************************************)
\* the clients commit until sync.log has the size of this many entries
MaxEntries == 2
\* entries already in the leader's sync.log when the process starts
MaxPre == 1

\* restarts of one node
MaxBoots == 1
\* threads of the RPC server that run AppendLog
MaxHandlers == 2
\* times the connection between the nodes fails
MaxOutages == 1

Nodes == {"M", "S"}

Other(n) == IF n = "M" THEN "S" ELSE "M"

\* the entries of spec section 8: A is 5 bytes, B is 3 bytes
PayloadNo(k) ==
    IF k % 2 = 1 THEN <<65, 65, 65, 65, 65>> ELSE <<66, 66, 66>>

Payloads == { PayloadNo(k) : k \in 1..2 }

Max(a, b) == IF a >= b THEN a ELSE b

(***************************************************************************)
(* The on-disk record: memcpy(buf, &len, 4) of an int on a little-endian   *)
(* machine, then the payload.                                              *)
(***************************************************************************)
LE32(n) == << n % 256, (n \div 256) % 256, (n \div 65536) % 256,
              (n \div 16777216) % 256 >>

DecodeLE32(b) == b[1] + 256 * b[2] + 65536 * b[3] + 16777216 * b[4]

Encode(data) == LE32(Len(data)) \o data

RECURSIVE EncodeAll(_)
EncodeAll(entries) ==
    IF entries = << >> THEN << >>
    ELSE Encode(Head(entries)) \o EncodeAll(Tail(entries))

\* the number of complete records of a file
RECURSIVE CountEntries(_, _)
CountEntries(file, pos) ==
    IF Len(file) - pos < 4 THEN 0
    ELSE LET len == DecodeLE32(SubSeq(file, pos + 1, pos + 4)) IN
         IF Len(file) - pos - 4 < len THEN 0
         ELSE 1 + CountEntries(file, pos + 4 + len)

(***************************************************************************)
(* MasterSlaveImpl::ReadEntry on the read descriptor read_log_, which      *)
(* stands at byte `pos` of `file`, when no other thread writes the file    *)
(* during the call (Init, before the threads are started).                 *)
(*   "ok"     the record was read; pos moved behind it                     *)
(*   "short"  the length was read, the payload is incomplete: false        *)
(*   "assert" read() gave fewer than 4 bytes: assert(ret == 4) fails       *)
(***************************************************************************)
ReadEntry(file, pos) ==
    LET avail == Len(file) - pos IN
    IF avail < 4
    THEN [kind |-> "assert", entry |-> << >>, pos |-> Max(pos, Len(file))]
    ELSE LET len == DecodeLE32(SubSeq(file, pos + 1, pos + 4)) IN
         IF avail - 4 >= len
         THEN [kind |-> "ok",
               entry |-> SubSeq(file, pos + 5, pos + 4 + len),
               pos |-> pos + 4 + len]
         ELSE [kind |-> "short", entry |-> << >>, pos |-> Len(file)]

\* the values a build without assertions has been seen to find in the
\* uninitialized buf of ReadEntry after read() returned 0 (line 206)
GarbageLens == {0, 21917}

Handlers == 1..MaxHandlers

\* a thread of the RPC server that serves no request: `offset` and `data` are
\* the request, `acc` says that the request passed both tests of lines
\* 176-188, `cur` is the value of current_offset_ the thread has loaded for
\* line 195 or line 196, `resp` is the response and `waited` says that the
\* caller has not given the call up
IdleHandler ==
    [ pc |-> "idle", offset |-> 0, data |-> << >>, acc |-> FALSE, cur |-> 0,
      resp |-> [success |-> FALSE, offset |-> 0], waited |-> FALSE ]

(***************************************************************************)
(* The redo loop of Init (lines 72-80) on the read descriptor at byte `pos` *)
(* of `file`: log_callback_ is called with every entry read (`calls`)       *)
(* while applied_offset_ < sync_offset_.  With assertions, ok is FALSE when *)
(* one fails: ReadEntry's assert(ret == 4), assert(0) of line 75 after a    *)
(* short record, or assert(applied_offset_ == sync_offset_) of line 80.     *)
(* Without them a ReadEntry that fails leaves `entry` empty and the read    *)
(* descriptor at the end of the file (as does one that finds a length of 0  *)
(* in its uninitialized buf): log_callback_ is called with the empty entry  *)
(* and applied_offset_ grows by 4 (lines 77-78).                            *)
(***************************************************************************)
RECURSIVE Replay(_, _, _, _, _, _)
Replay(file, pos, applied, sync, calls, asserts) ==
    IF ~(applied < sync)
    THEN [ok |-> (~asserts \/ applied = sync), calls |-> calls,
          applied |-> applied, pos |-> pos]
    ELSE LET r == ReadEntry(file, pos) IN
         IF r.kind = "ok"
         THEN Replay(file, r.pos, applied + Len(r.entry) + 4, sync,
                     Append(calls, r.entry), asserts)
         ELSE IF asserts
         THEN [ok |-> FALSE, calls |-> calls, applied |-> applied,
               pos |-> r.pos]
         ELSE Replay(file, r.pos, applied + 4, sync, Append(calls, << >>),
                     asserts)
(***************************************************************************)
(* The instance after the constructor (lines 24-42) and Init() (lines      *)
(* 44-88) of a process started with role `role` on a node whose sync.log   *)
(* is `file` and whose applied.log is `ckpt` (<< >> when there is none):   *)
(* current_offset_ and sync_offset_ are the end of the file, the entries   *)
(* from the saved applied_offset_ on are replayed into log_callback_,      *)
(* callbacks_ is empty, the replicator thread runs on the leader only, and *)
(* LogStatus() (line 87) saves applied_offset_.  `asserts` says whether    *)
(* the process is of a build with assertions.  In such a build a failed    *)
(* assertion (lines 67, 75, 80, 205) leaves a dead process and the files   *)
(* as they were.  Without assertions Init goes on: the read descriptor is  *)
(* set to the saved offset even behind the end of the file, and the        *)
(* process runs with whatever applied_offset_ the redo loop ended with.    *)
(***************************************************************************)
InitProc(role, master, slave, file, ckpt, boots, asserts) ==
    LET end == Len(file)
        a   == IF Len(ckpt) = 4 THEN DecodeLE32(ckpt) ELSE 0
        rp  == IF a <= end \/ ~asserts
               THEN Replay(file, a, a, end, << >>, asserts)
               ELSE [ok |-> FALSE, calls |-> << >>, applied |-> a, pos |-> 0]
        up  == rp.ok IN
    [ alive           |-> up,
      role            |-> role,
      boots           |-> boots,
      is_leader       |-> (role = "master"),
      master_addr     |-> master,
      slave_addr      |-> slave,
      log             |-> file,
      ckpt            |-> IF up THEN LE32(rp.applied) ELSE ckpt,
      read_pos        |-> IF up THEN rp.pos ELSE 0,
      current_offset  |-> IF up THEN end ELSE 0,
      applied_offset  |-> IF up THEN rp.applied ELSE 0,
      sync_offset     |-> IF up THEN end ELSE 0,
      master_only     |-> FALSE,
      callbacks       |-> {},
      \* the entries log_callback_ was called with, in order
      applied_entries |-> IF up THEN rp.calls ELSE << >>,
      \* the saved applied_offset_ this Init started from, and what it
      \* replayed
      boot_from       |-> a,
      boot_calls      |-> rp.calls,
      \* calls of the callbacks handed to the asynchronous Log, in order
      cb_calls        |-> << >>,
      \* the delayed PorcessCallbck(offset, len, true) tasks of thread_pool_
      tasks           |-> {},
      \* the thread of BackgroundLog/ReplicateLog: its position, the locals
      \* entry, len (of ReadEntry), request.offset and response, and the
      \* value of current_offset_ loaded for line 283
      w_pc            |-> IF up /\ role = "master" THEN "bg_wait" ELSE "off",
      w_entry         |-> << >>,
      w_len           |-> 0,
      w_req           |-> 0,
      w_resp          |-> [success |-> FALSE, offset |-> 0],
      w_moRep         |-> FALSE,
      w_sbRep         |-> 0,
      w_cur           |-> 0,
      \* whether the standby has rejected a request of this replicator
      w_rejected      |-> FALSE,
      \* the thread of the caller of Log: its position, the entry, the
      \* locals last_offset and the entry's end, and the value of
      \* current_offset_ loaded for line 105
      c_pc            |-> "idle",
      c_entry         |-> << >>,
      c_last          |-> 0,
      c_end           |-> 0,
      c_expired       |-> FALSE,
      c_woken         |-> FALSE,
      c_unreach       |-> FALSE,
      c_behind        |-> FALSE,
      c_cur           |-> 0,
      \* the value of sync_offset_ loaded for line 111, and whether the
      \* asynchronous Log took the branch of lines 140-141
      c_sync          |-> 0,
      c_fast          |-> FALSE,
      \* the threads of the RPC server inside AppendLog
      handlers        |-> [h \in Handlers |-> IdleHandler] ]

\* the first start of a node whose sync.log holds `entries` and that has no
\* applied.log: the whole log is replayed
InitNode(role, entries, master, slave) ==
    InitProc(role, master, slave, EncodeAll(entries), << >>, 0, TRUE)

NoReport ==
    [ op |-> "none", start |-> 0, end |-> 0, moRep |-> FALSE, sbRep |-> 0,
      setMo |-> FALSE, moEnd |-> FALSE, sync |-> 0, cur |-> 0, app |-> 0,
      expired |-> FALSE, behind |-> FALSE, unreach |-> FALSE,
      queued |-> FALSE ]

\* The report of a commit whose operation `op`, begun in state st0 of the
\* leader, has just completed in state st: moRep and sbRep are master_only_ and the standby's
\* current_offset_ at the moment of the report, setMo says that the operation
\* itself assigned master_only_ = true.
Report(op, start, end, moRep, sbRep, setMo, queued, st0, st) ==
    [ op |-> op, start |-> start, end |-> end, moRep |-> moRep,
      sbRep |-> sbRep, setMo |-> setMo, moEnd |-> st.master_only,
      sync |-> st.sync_offset, cur |-> st.current_offset,
      app |-> st.applied_offset, expired |-> st0.c_expired,
      behind |-> st0.c_behind, unreach |-> st0.c_unreach, queued |-> queued ]

\* the first k entries the clients commit
EntrySeq(k) == [i \in 1..k |-> PayloadNo(i)]

\* the entry the clients of node n commit next
NextPayload(n) == PayloadNo(CountEntries(node[n].log, 0) + 1)

\* A cluster whose leader has just started: its log may hold entries that
\* the standby, which holds a prefix of them, has never received.
Init ==
    /\ \E k \in 0..MaxPre : \E j \in 0..k :
          node = [n \in Nodes |->
                    IF n = "M" THEN InitNode("master", EntrySeq(k), "M", "S")
                    ELSE InitNode("slave", EntrySeq(j), "M", "S")]
    /\ link \in BOOLEAN
    /\ outages = IF link THEN 0 ELSE 1
    /\ last = NoReport

\* current_offset_ of the standby of n
SbCur(n) == node[node[n].slave_addr].current_offset

\* node n runs and is the leader
Running(n) == node[n].alive /\ node[n].is_leader

\* the positions at which a thread holds mu_ between two steps
CallerLocked ==
    {"log_wr", "log_last", "log_add", "log_add_store",
     "async_wr", "async_chk", "async_fast", "async_fast_store",
     "async_ins", "async_delay", "async_add", "async_add_store"}

WorkerLocked == {"pcb_store", "pcb_after", "rl_adv_mo", "rl_adv_cur",
                 "rl_adv_clear"}

TaskLocked == {"store", "after"}

\* no thread of the instance is inside a region that holds mu_ (a region
\* that is more than one step; a one-step region takes and releases mu_ in
\* its step)
MuFree(st) ==
    /\ st.c_pc \notin CallerLocked
    /\ st.w_pc \notin WorkerLocked
    /\ \A t \in st.tasks : t.pc \notin TaskLocked

(***************************************************************************)
(* bool Log(const std::string& entry, int timeout_ms), lines 95-132.       *)
(* current_offset_ is written by AppendLog without the lock (line 195), so *)
(* every access to it is a step of its own, under the lock too.            *)
(***************************************************************************)
\* line 96 and, in LogLocal, line 294: mu_ is taken and the length written.
\* The callers call Log on the leader only, and stop when sync.log would
\* grow beyond the size of the first MaxEntries entries.
LogBegin(n, entry) ==
    LET st == node[n] IN
    /\ Running(n) /\ st.c_pc = "idle" /\ MuFree(st)
    /\ Len(st.log) + 4 + Len(entry) <= Len(EncodeAll(EntrySeq(MaxEntries)))
    /\ node' = [node EXCEPT ![n] =
                  [st EXCEPT !.log = @ \o LE32(Len(entry)),
                             !.c_entry = entry,
                             !.c_pc = "log_wr"]]
    /\ UNCHANGED <<link, outages>> /\ last' = NoReport

\* LogLocal line 295: the payload is written
LogAppend(n) ==
    LET st == node[n] IN
    /\ st.alive /\ st.c_pc = "log_wr"
    /\ node' = [node EXCEPT ![n] =
                  [st EXCEPT !.log = @ \o st.c_entry,
                             !.c_pc = "log_last"]]
    /\ UNCHANGED <<link, outages>> /\ last' = NoReport

\* line 98: int last_offset = current_offset_
LogLast(n) ==
    LET st == node[n] IN
    /\ st.alive /\ st.c_pc = "log_last"
    /\ node' = [node EXCEPT ![n] =
                  [st EXCEPT !.c_last = st.current_offset,
                             !.c_end = st.current_offset + Len(st.c_entry) + 4,
                             !.c_pc = "log_add"]]
    /\ UNCHANGED <<link, outages>> /\ last' = NoReport

\* line 99, current_offset_ += len: the load
LogAddLoad(n) ==
    LET st == node[n] IN
    /\ st.alive /\ st.c_pc = "log_add"
    /\ node' = [node EXCEPT ![n] =
                  [st EXCEPT !.c_cur = st.current_offset,
                             !.c_pc = "log_add_store"]]
    /\ UNCHANGED <<link, outages>> /\ last' = NoReport

\* lines 99-101: the store of the sum, cond_.Signal() and mu_.Unlock()
LogAddStore(n) ==
    LET st == node[n] IN
    /\ st.alive /\ st.c_pc = "log_add_store"
    /\ node' = [node EXCEPT ![n] =
                  [st EXCEPT !.current_offset = st.c_cur + Len(st.c_entry) + 4,
                             !.c_cur = 0,
                             !.c_entry = << >>,
                             !.c_pc = "log_chk",
                             !.c_expired = FALSE,
                             !.c_woken = FALSE,
                             !.c_behind = FALSE,
                             !.c_unreach = ~link]]
    /\ UNCHANGED <<link, outages>> /\ last' = NoReport

\* line 103, read without the lock: master_only_
LogChk(n) ==
    LET st == node[n] IN
    /\ st.alive /\ st.c_pc = "log_chk"
    /\ node' = [node EXCEPT ![n].c_pc =
                  IF st.master_only THEN "log_chk_sync" ELSE "log_while"]
    /\ UNCHANGED <<link, outages>> /\ last' = NoReport

\* line 103, read without the lock: sync_offset_ < last_offset
LogChkSync(n) ==
    LET st == node[n] IN
    /\ st.alive /\ st.c_pc = "log_chk_sync"
    /\ node' = [node EXCEPT ![n].c_pc =
                  IF st.sync_offset < st.c_last
                  THEN "log_fast" ELSE "log_while"]
    /\ UNCHANGED <<link, outages>> /\ last' = NoReport

\* line 105, applied_offset_ = current_offset_ without the lock: the load
LogFastLoad(n) ==
    LET st == node[n] IN
    /\ st.alive /\ st.c_pc = "log_fast"
    /\ node' = [node EXCEPT ![n] =
                  [st EXCEPT !.c_cur = st.current_offset,
                             !.c_pc = "log_fast_store"]]
    /\ UNCHANGED <<link, outages>> /\ last' = NoReport

\* the locals of the caller when Log has returned
LogReturn(st) ==
    [st EXCEPT !.c_pc = "idle", !.c_last = 0, !.c_end = 0, !.c_cur = 0,
               !.c_sync = 0, !.c_fast = FALSE,
               !.c_expired = FALSE, !.c_woken = FALSE,
               !.c_unreach = FALSE, !.c_behind = FALSE]

\* lines 105-106: the store to applied_offset_ and the return
LogFastStore(n) ==
    LET st == node[n]
        st2 == LogReturn([st EXCEPT !.applied_offset = st.c_cur]) IN
    /\ st.alive /\ st.c_pc = "log_fast_store"
    /\ node' = [node EXCEPT ![n] = st2]
    /\ last' = Report("log_fast", st.c_last, st.c_end,
                      st.master_only, SbCur(n), FALSE, FALSE, st, st2)
    /\ UNCHANGED <<link, outages>>

\* line 111, evaluated without the lock: the load of sync_offset_
LogWhileSync(n) ==
    LET st == node[n] IN
    /\ st.alive /\ st.c_pc = "log_while"
    /\ node' = [node EXCEPT ![n] =
                  [st EXCEPT !.c_sync = st.sync_offset,
                             !.c_pc = "log_while_cur"]]
    /\ UNCHANGED <<link, outages>> /\ last' = NoReport

\* line 111: the load of current_offset_ and the clock; the loop is left
\* for line 130 when the offsets are equal or stop_point is reached
LogWhile(n) ==
    LET st == node[n] IN
    /\ st.alive /\ st.c_pc = "log_while_cur"
    /\ node' = [node EXCEPT ![n] =
                  [st EXCEPT !.c_sync = 0,
                             !.c_pc =
                                IF st.c_sync # st.current_offset
                                   /\ ~st.c_expired
                                THEN "log_lock" ELSE "log_to"]]
    /\ UNCHANGED <<link, outages>> /\ last' = NoReport

\* lines 112-114: the lock is taken and log_done_.TimeWait releases it
LogEnterWait(n) ==
    LET st == node[n] IN
    /\ st.alive /\ st.c_pc = "log_lock" /\ MuFree(st)
    /\ node' = [node EXCEPT ![n] = [st EXCEPT !.c_pc = "log_waiting",
                                              !.c_woken = FALSE]]
    /\ UNCHANGED <<link, outages>> /\ last' = NoReport

\* lines 114-123: TimeWait returned true, the lock is held (sync_offset_
\* and master_only_ are stable under the lock, current_offset_ is read
\* once)
LogWake(n) ==
    LET st == node[n]
        st2 == LogReturn([st EXCEPT !.master_only = FALSE]) IN
    /\ st.alive /\ st.c_pc = "log_waiting" /\ st.c_woken /\ MuFree(st)
    /\ IF st.sync_offset # st.current_offset
       THEN /\ node' = [node EXCEPT ![n].c_pc = "log_while"]
            /\ last' = NoReport
       ELSE /\ node' = [node EXCEPT ![n] = st2]
            /\ last' = Report("log_ack", st.c_last, st.c_end,
                              FALSE, SbCur(n), FALSE, FALSE, st, st2)
    /\ UNCHANGED <<link, outages>>

\* lines 114, 124-126: TimeWait returned false, the lock is held
LogTimedOut(n) ==
    LET st == node[n] IN
    /\ st.alive /\ st.c_pc = "log_waiting" /\ st.c_expired /\ MuFree(st)
    /\ node' = [node EXCEPT ![n].c_pc = "log_to"]
    /\ UNCHANGED <<link, outages>> /\ last' = NoReport

\* lines 128-131, reached when the loop is left by its test or by break:
\* master_only_ = true is written without the lock, and Log returns true
LogTimeout(n) ==
    LET st == node[n]
        st2 == LogReturn([st EXCEPT !.master_only = TRUE]) IN
    /\ st.alive /\ st.c_pc = "log_to"
    /\ node' = [node EXCEPT ![n] = st2]
    /\ last' = Report("log_timeout", st.c_last, st.c_end,
                      TRUE, SbCur(n), TRUE, FALSE, st, st2)
    /\ UNCHANGED <<link, outages>>

InLog == {"log_chk", "log_chk_sync", "log_fast", "log_fast_store",
          "log_while", "log_while_cur", "log_lock", "log_waiting", "log_to"}

\* common::timer::get_micros() reaches stop_point: the deadline exists from
\* line 110 on and is looked at in lines 111, 113 and 114, so it passes
\* while the caller is before the test of line 111, before the lock of line
\* 112 or inside TimeWait, never before line 110 nor on the path of lines
\* 103-106, which has no deadline
Tick(n) ==
    LET st == node[n] IN
    /\ st.alive
    /\ st.c_pc \in {"log_while", "log_while_cur", "log_lock", "log_waiting"}
    /\ ~st.c_expired
    /\ node' = [node EXCEPT ![n] =
                  [st EXCEPT !.c_expired = TRUE,
                             !.c_behind = (st.sync_offset # st.current_offset)]]
    /\ UNCHANGED <<link, outages>> /\ last' = NoReport

(***************************************************************************)
(* void Log(const std::string& entry, boost::function<void (bool)>)        *)
(* lines 134-153, under mu_: one step for every access to current_offset_  *)
(* and to applied_offset_, which other threads write without the lock.     *)
(* The callback is identified by the offset the entry was found to start   *)
(* at (line 139).                                                          *)
(***************************************************************************)
\* line 136 and, in LogLocal, line 294: mu_ is taken and the length written
LogAsyncBegin(n, entry) ==
    LET st == node[n] IN
    /\ Running(n) /\ st.c_pc = "idle" /\ MuFree(st)
    /\ Len(st.log) + 4 + Len(entry) <= Len(EncodeAll(EntrySeq(MaxEntries)))
    /\ node' = [node EXCEPT ![n] =
                  [st EXCEPT !.log = @ \o LE32(Len(entry)),
                             !.c_entry = entry,
                             !.c_pc = "async_wr"]]
    /\ UNCHANGED <<link, outages>> /\ last' = NoReport

\* LogLocal line 295: the payload is written
LogAsyncAppend(n) ==
    LET st == node[n] IN
    /\ st.alive /\ st.c_pc = "async_wr"
    /\ node' = [node EXCEPT ![n] =
                  [st EXCEPT !.log = @ \o st.c_entry,
                             !.c_pc = "async_chk"]]
    /\ UNCHANGED <<link, outages>> /\ last' = NoReport

\* line 139: master_only_ && sync_offset_ < current_offset_
LogAsyncChk(n) ==
    LET st == node[n]
        fast == st.master_only /\ st.sync_offset < st.current_offset IN
    /\ st.alive /\ st.c_pc = "async_chk"
    /\ node' = [node EXCEPT ![n] =
                  [st EXCEPT !.c_last = st.current_offset,
                             !.c_end = st.current_offset + Len(st.c_entry) + 4,
                             !.c_fast = fast,
                             !.c_pc = IF fast THEN "async_fast"
                                      ELSE "async_ins"]]
    /\ UNCHANGED <<link, outages>> /\ last' = NoReport

\* lines 140-141: callback(true), and the load of current_offset_
LogAsyncFastLoad(n) ==
    LET st == node[n] IN
    /\ st.alive /\ st.c_pc = "async_fast"
    /\ node' = [node EXCEPT ![n] =
                  [st EXCEPT !.cb_calls = Append(@, st.c_last),
                             !.c_cur = st.current_offset,
                             !.c_pc = "async_fast_store"]]
    /\ UNCHANGED <<link, outages>> /\ last' = NoReport

\* line 141: the store to applied_offset_
LogAsyncFastStore(n) ==
    LET st == node[n] IN
    /\ st.alive /\ st.c_pc = "async_fast_store"
    /\ node' = [node EXCEPT ![n] =
                  [st EXCEPT !.applied_offset = st.c_cur,
                             !.c_cur = 0,
                             !.c_pc = "async_add"]]
    /\ UNCHANGED <<link, outages>> /\ last' = NoReport

\* line 143: callbacks_.insert(std::make_pair(current_offset_, callback)),
\* which leaves a callback already registered under the offset in place
LogAsyncInsert(n) ==
    LET st == node[n] IN
    /\ st.alive /\ st.c_pc = "async_ins"
    /\ node' = [node EXCEPT ![n] =
                  [st EXCEPT !.callbacks = @ \cup {st.current_offset},
                             !.c_pc = "async_delay"]]
    /\ UNCHANGED <<link, outages>> /\ last' = NoReport

\* lines 145-148: DelayTask(10000, PorcessCallbck(current_offset_,
\* entry.length() + 4, true)) and cond_.Signal(); `at` tells the tasks of
\* two calls apart
LogAsyncDelay(n) ==
    LET st == node[n] IN
    /\ st.alive /\ st.c_pc = "async_delay"
    /\ node' = [node EXCEPT ![n] =
                  [st EXCEPT !.tasks = @ \cup {[offset |-> st.current_offset,
                                                len |-> Len(st.c_entry) + 4,
                                                at |-> Len(st.log),
                                                pc |-> "sched",
                                                moRep |-> FALSE,
                                                sbRep |-> 0]},
                             !.c_pc = "async_add"]]
    /\ UNCHANGED <<link, outages>> /\ last' = NoReport

\* line 150, current_offset_ += len: the load
LogAsyncAddLoad(n) ==
    LET st == node[n] IN
    /\ st.alive /\ st.c_pc = "async_add"
    /\ node' = [node EXCEPT ![n] =
                  [st EXCEPT !.c_cur = st.current_offset,
                             !.c_pc = "async_add_store"]]
    /\ UNCHANGED <<link, outages>> /\ last' = NoReport

\* lines 150-152: the store of the sum, mu_.Unlock() and the return.  The
\* report of a call that took lines 140-141 says whether the call has left a
\* callback under the entry's offset or a task in thread_pool_.
LogAsyncAddStore(n) ==
    LET st == node[n]
        st2 == LogReturn([st EXCEPT
                   !.current_offset = st.c_cur + Len(st.c_entry) + 4,
                   !.c_entry = << >>])
        queued == \/ st.c_last \in st.callbacks
                  \/ \E t \in st.tasks : t.at = Len(st.log) IN
    /\ st.alive /\ st.c_pc = "async_add_store"
    /\ node' = [node EXCEPT ![n] = st2]
    /\ last' = IF st.c_fast
               THEN Report("async_fast", st.c_last, st.c_end, st.master_only,
                           SbCur(n), FALSE, queued, st, st2)
               ELSE NoReport
    /\ UNCHANGED <<link, outages>>
(***************************************************************************)
(* PorcessCallbck(offset, len, timeout_check), lines 300-325: the lookup   *)
(* under the lock, the call of the callback with the lock released, and    *)
(* the rest under the lock again.  The rest is cut at every access to      *)
(* applied_offset_ (the test of line 311, the store of line 312): lines    *)
(* 105, 196 and 283 write it without the lock.  Lines 314-324 are one      *)
(* step: master_only_, once read true under the lock, stays true (line 130 *)
(* alone writes it without the lock, and writes true), so that             *)
(* current_offset_ is the one value of the step another thread can change. *)
(***************************************************************************)
\* lines 302-308 when the callback is found: the state after erase
PcbErase(st, offset) == [st EXCEPT !.callbacks = @ \ {offset}]

\* line 309
PcbCall(st, offset) == [st EXCEPT !.cb_calls = Append(@, offset)]

\* line 311
PcbTest(st, offset, len) == offset + len > st.applied_offset

\* line 312
PcbStore(st, offset, len) == [st EXCEPT !.applied_offset = offset + len]

\* lines 314-324 after the callback returned
PcbAfterCall(st, offset, len, timeout_check) ==
    IF timeout_check /\ ~st.master_only
    THEN [st EXCEPT !.master_only = TRUE]
    ELSE IF st.master_only /\ offset + len = st.current_offset
    THEN [st EXCEPT !.master_only = TRUE]
    ELSE st

\* whether lines 314-324 execute an assignment master_only_ = true
PcbSetsFlag(st, offset, len, timeout_check) ==
    \/ timeout_check /\ ~st.master_only
    \/ st.master_only /\ offset + len = st.current_offset

\* lines 321-324 when no callback was found
PcbNotFound(st, offset, len) ==
    IF st.master_only /\ offset + len = st.current_offset
    THEN [st EXCEPT !.master_only = TRUE]
    ELSE st

(***************************************************************************)
(* The delayed task thread_pool_ runs for an asynchronous commit:          *)
(* PorcessCallbck(offset, len, true).                                      *)
(***************************************************************************)
TaskFind(n) ==
    LET st == node[n] IN
    /\ st.alive /\ MuFree(st)
    /\ \E t \in st.tasks :
         /\ t.pc = "sched"
         /\ IF t.offset \in st.callbacks
            THEN node' = [node EXCEPT ![n] =
                    [PcbErase(st, t.offset) EXCEPT
                        !.tasks = (@ \ {t}) \cup {[t EXCEPT !.pc = "call"]}]]
            ELSE node' = [node EXCEPT ![n] =
                    [PcbNotFound(st, t.offset, t.len) EXCEPT
                        !.tasks = @ \ {t}]]
    /\ UNCHANGED <<link, outages>> /\ last' = NoReport

TaskCall(n) ==
    LET st == node[n] IN
    /\ st.alive
    /\ \E t \in st.tasks :
         /\ t.pc = "call"
         /\ node' = [node EXCEPT ![n] =
                 [PcbCall(st, t.offset) EXCEPT
                     !.tasks = (@ \ {t}) \cup
                               {[t EXCEPT !.pc = "relock",
                                          !.moRep = st.master_only,
                                          !.sbRep = SbCur(n)]}]]
    /\ UNCHANGED <<link, outages>> /\ last' = NoReport

\* lines 310-311: mu_ is taken again and the test evaluated
TaskRelock(n) ==
    LET st == node[n] IN
    /\ st.alive /\ MuFree(st)
    /\ \E t \in st.tasks :
         /\ t.pc = "relock"
         /\ node' = [node EXCEPT ![n].tasks =
                        (@ \ {t}) \cup
                        {[t EXCEPT !.pc = IF PcbTest(st, t.offset, t.len)
                                          THEN "store" ELSE "after"]}]
    /\ UNCHANGED <<link, outages>> /\ last' = NoReport

\* line 312
TaskStore(n) ==
    LET st == node[n] IN
    /\ st.alive
    /\ \E t \in st.tasks :
         /\ t.pc = "store"
         /\ node' = [node EXCEPT ![n] =
                 [PcbStore(st, t.offset, t.len) EXCEPT
                     !.tasks = (@ \ {t}) \cup {[t EXCEPT !.pc = "after"]}]]
    /\ UNCHANGED <<link, outages>> /\ last' = NoReport

\* lines 314-325: the task leaves PorcessCallbck and releases mu_
TaskEnd(n) ==
    LET st == node[n] IN
    /\ st.alive
    /\ \E t \in st.tasks :
         /\ t.pc = "after"
         /\ LET st2 == [PcbAfterCall(st, t.offset, t.len, TRUE) EXCEPT
                           !.tasks = @ \ {t}] IN
            /\ node' = [node EXCEPT ![n] = st2]
            /\ last' = Report("cb_timeout", t.offset, t.offset + t.len,
                              t.moRep, t.sbRep,
                              PcbSetsFlag(st, t.offset, t.len, TRUE),
                              FALSE, st, st2)
    /\ UNCHANGED <<link, outages>>

(***************************************************************************)
(* The replicator thread: BackgroundLog (lines 219-234) and ReplicateLog   *)
(* (lines 236-285).  exiting_ is never set.                                *)
(***************************************************************************)
\* entry, request and response are locals of one iteration of the loop of
\* ReplicateLog
EndIter(st) ==
    [st EXCEPT !.w_entry = << >>, !.w_len = 0, !.w_req = 0,
               !.w_resp = [success |-> FALSE, offset |-> 0],
               !.w_moRep = FALSE, !.w_sbRep = 0, !.w_pc = "rl_loop"]

\* lines 221-231: cond_.Wait() until sync_offset_ != current_offset_
BgWake(n) ==
    LET st == node[n] IN
    /\ st.alive /\ st.w_pc = "bg_wait" /\ MuFree(st)
    /\ st.sync_offset # st.current_offset
    /\ node' = [node EXCEPT ![n].w_pc = "rl_loop"]
    /\ UNCHANGED <<link, outages>> /\ last' = NoReport

\* line 237, read without the lock
RlLoop(n) ==
    LET st == node[n] IN
    /\ st.alive /\ st.w_pc = "rl_loop"
    /\ node' = [node EXCEPT ![n].w_pc =
                  IF st.sync_offset < st.current_offset
                  THEN "rl_lock" ELSE "rl_done"]
    /\ UNCHANGED <<link, outages>> /\ last' = NoReport

\* lines 238-245
RlLock(n) ==
    LET st == node[n] IN
    /\ st.alive /\ st.w_pc = "rl_lock" /\ MuFree(st)
    /\ node' = [node EXCEPT ![n].w_pc =
                  IF st.sync_offset = st.current_offset
                  THEN "rl_done" ELSE "rl_read"]
    /\ UNCHANGED <<link, outages>> /\ last' = NoReport

\* ReadEntry lines 204-207, called without the lock (line 247): read() gives
\* the 4 bytes of the length
RlReadLen(n) ==
    LET st == node[n] IN
    /\ st.alive /\ st.w_pc = "rl_read"
    /\ Len(st.log) - st.read_pos >= 4
    /\ node' = [node EXCEPT ![n] =
                  [st EXCEPT !.w_len = DecodeLE32(SubSeq(st.log,
                                           st.read_pos + 1, st.read_pos + 4)),
                             !.read_pos = @ + 4,
                             !.w_pc = "rl_read_data"]]
    /\ UNCHANGED <<link, outages>> /\ last' = NoReport

\* line 205: read() gave fewer than 4 bytes and assert(ret == 4) aborts the
\* process (as does, without assertions, new char[len] of a negative len)
RlReadAbort(n) ==
    LET st == node[n] IN
    /\ st.alive /\ st.w_pc = "rl_read"
    /\ Len(st.log) - st.read_pos < 4
    /\ node' = [node EXCEPT ![n] =
                  [st EXCEPT !.alive = FALSE,
                             !.read_pos = Max(@, Len(st.log))]]
    /\ UNCHANGED <<link, outages>> /\ last' = NoReport

\* lines 205-207 in a build without assertions: len is whatever buf held
RlReadGarbage(n) ==
    LET st == node[n] IN
    /\ st.alive /\ st.w_pc = "rl_read"
    /\ Len(st.log) - st.read_pos < 4
    /\ \E len \in GarbageLens :
         node' = [node EXCEPT ![n] =
                    [st EXCEPT !.w_len = len,
                               !.read_pos = Max(@, Len(st.log)),
                               !.w_pc = "rl_read_data"]]
    /\ UNCHANGED <<link, outages>> /\ last' = NoReport

\* ReadEntry lines 208-216 and lines 247-254: read() gives what the file
\* holds of the payload; a whole payload becomes the request, a short one
\* makes ReplicateLog return
RlReadData(n) ==
    LET st == node[n]
        avail == Len(st.log) - st.read_pos IN
    /\ st.alive /\ st.w_pc = "rl_read_data"
    /\ node' = [node EXCEPT ![n] =
                  IF st.w_len = 0 \/ avail >= st.w_len
                  THEN [st EXCEPT !.w_entry = SubSeq(st.log, st.read_pos + 1,
                                                     st.read_pos + st.w_len),
                                  !.read_pos = @ + st.w_len,
                                  !.w_len = 0,
                                  !.w_req = st.sync_offset,
                                  !.w_pc = "rl_send"]
                  ELSE [st EXCEPT !.read_pos = Max(@, Len(st.log)),
                                  !.w_len = 0,
                                  !.w_pc = "bg_wait"]]
    /\ UNCHANGED <<link, outages>> /\ last' = NoReport

\* lines 255-261: SendRequest fails before the standby got the request
RlSendFail(n) ==
    LET st == node[n] IN
    /\ st.alive /\ st.w_pc = "rl_send"
    /\ ~(link /\ node[st.slave_addr].alive)
    /\ node' = [node EXCEPT ![n].w_pc = "rl_sleep"]
    /\ UNCHANGED <<link, outages>> /\ last' = NoReport

\* line 260: sleep(5) is over
RlRetry(n) ==
    LET st == node[n] IN
    /\ st.alive /\ st.w_pc = "rl_sleep"
    /\ node' = [node EXCEPT ![n].w_pc = "rl_send"]
    /\ UNCHANGED <<link, outages>> /\ last' = NoReport

\* lines 255-256: the request of replicator n reaches its standby and is
\* given to the free thread h; calls the replicator made before are calls
\* it has given up
HArrive(n, h) ==
    LET st == node[n]
        p == st.slave_addr IN
    /\ st.alive /\ st.w_pc = "rl_send"
    /\ p # n
    /\ link /\ node[p].alive
    /\ node[p].handlers[h].pc = "idle"
    /\ \A g \in Handlers : g < h => node[p].handlers[g].pc # "idle"
    /\ node' = [node EXCEPT
                  ![p].handlers = [g \in Handlers |->
                      IF g = h
                      THEN [IdleHandler EXCEPT !.pc = "chk_gap",
                                               !.offset = st.w_req,
                                               !.data = st.w_entry,
                                               !.waited = TRUE]
                      ELSE [node[p].handlers[g] EXCEPT !.waited = FALSE]],
                  ![n].w_pc = "rl_wait"]
    /\ UNCHANGED <<link, outages>> /\ last' = NoReport

\* a thread of the standby of n serves the call the replicator of n waits for
Served(n) ==
    LET p == node[n].slave_addr IN
    /\ node[p].alive
    /\ \E h \in Handlers : /\ node[p].handlers[h].pc # "idle"
                           /\ node[p].handlers[h].waited

\* no response arrives (the link is down, or the response was dropped, or the
\* process that served the call is gone): SendRequest returns false after
\* its timeout
RlRpcLost(n) ==
    LET st == node[n] IN
    /\ st.alive /\ st.w_pc = "rl_wait"
    /\ ~link \/ ~Served(n)
    /\ node' = [node EXCEPT ![n] =
                  [st EXCEPT !.w_resp = [success |-> FALSE, offset |-> 0],
                             !.w_pc = "rl_sleep"]]
    /\ UNCHANGED <<link, outages>> /\ last' = NoReport

\* ReplicateLog that takes the resync offset but does not seek read_log_
RlResp_NoSeek(n) ==
    LET st == node[n] IN
    /\ st.alive /\ st.w_pc = "rl_resp"
    /\ node' = [node EXCEPT ![n] =
                  IF ~st.w_resp.success
                  THEN IF st.w_resp.offset # -1
                       THEN EndIter([st EXCEPT
                                       !.sync_offset = st.w_resp.offset,
                                       !.w_rejected = TRUE])
                       ELSE EndIter([st EXCEPT !.w_rejected = TRUE])
                  ELSE [st EXCEPT !.w_pc = "pcb_find"]]
    /\ UNCHANGED <<link, outages>> /\ last' = NoReport

\* lines 262-271; a rejection is handled under mu_
RlResp(n) ==
    LET st == node[n] IN
    /\ st.alive /\ st.w_pc = "rl_resp"
    /\ st.w_resp.success \/ MuFree(st)
    /\ node' = [node EXCEPT ![n] =
                  IF ~st.w_resp.success
                  THEN IF st.w_resp.offset # -1
                       THEN EndIter([st EXCEPT
                                       !.sync_offset = st.w_resp.offset,
                                       !.read_pos = st.w_resp.offset,
                                       !.w_rejected = TRUE])
                       ELSE EndIter([st EXCEPT !.w_rejected = TRUE])
                  ELSE [st EXCEPT !.w_pc = "pcb_find"]]
    /\ UNCHANGED <<link, outages>> /\ last' = NoReport

\* line 272: PorcessCallbck(sync_offset_, entry.length() + 4, false), lookup
RlPcbFind(n) ==
    LET st == node[n]
        offset == st.sync_offset
        len == Len(st.w_entry) + 4 IN
    /\ st.alive /\ st.w_pc = "pcb_find" /\ MuFree(st)
    /\ node' = [node EXCEPT ![n] =
                  IF offset \in st.callbacks
                  THEN [PcbErase(st, offset) EXCEPT !.w_pc = "pcb_call"]
                  ELSE [PcbNotFound(st, offset, len) EXCEPT !.w_pc = "rl_adv"]]
    /\ UNCHANGED <<link, outages>> /\ last' = NoReport

RlPcbCall(n) ==
    LET st == node[n] IN
    /\ st.alive /\ st.w_pc = "pcb_call"
    /\ node' = [node EXCEPT ![n] =
                  [PcbCall(st, st.sync_offset) EXCEPT
                      !.w_moRep = st.master_only,
                      !.w_sbRep = SbCur(n),
                      !.w_pc = "pcb_relock"]]
    /\ UNCHANGED <<link, outages>> /\ last' = NoReport

\* lines 310-311: mu_ is taken again and the test evaluated
RlPcbRelock(n) ==
    LET st == node[n] IN
    /\ st.alive /\ st.w_pc = "pcb_relock" /\ MuFree(st)
    /\ node' = [node EXCEPT ![n].w_pc =
                  IF PcbTest(st, st.sync_offset, Len(st.w_entry) + 4)
                  THEN "pcb_store" ELSE "pcb_after"]
    /\ UNCHANGED <<link, outages>> /\ last' = NoReport

\* line 312
RlPcbStore(n) ==
    LET st == node[n] IN
    /\ st.alive /\ st.w_pc = "pcb_store"
    /\ node' = [node EXCEPT ![n] =
                  [PcbStore(st, st.sync_offset, Len(st.w_entry) + 4) EXCEPT
                      !.w_pc = "pcb_after"]]
    /\ UNCHANGED <<link, outages>> /\ last' = NoReport

\* lines 314-325: the replicator leaves PorcessCallbck and releases mu_
RlPcbEnd(n) ==
    LET st == node[n]
        offset == st.sync_offset
        len == Len(st.w_entry) + 4
        st2 == [PcbAfterCall(st, offset, len, FALSE) EXCEPT
                   !.w_pc = "rl_adv"] IN
    /\ st.alive /\ st.w_pc = "pcb_after"
    /\ node' = [node EXCEPT ![n] = st2]
    /\ last' = Report("cb_ack", offset, offset + len, st.w_moRep, st.w_sbRep,
                      PcbSetsFlag(st, offset, len, FALSE), FALSE, st, st2)
    /\ UNCHANGED <<link, outages>>

\* lines 273-274: mu_ is taken and sync_offset_ advanced; the caller of Log
\* reads sync_offset_ without the lock (lines 103, 111)
RlAdvance(n) ==
    LET st == node[n] IN
    /\ st.alive /\ st.w_pc = "rl_adv" /\ MuFree(st)
    /\ node' = [node EXCEPT ![n] =
                  [st EXCEPT !.sync_offset = @ + 4 + Len(st.w_entry),
                             !.w_pc = "rl_adv_mo"]]
    /\ UNCHANGED <<link, outages>> /\ last' = NoReport

\* line 276: master_only_, which line 130 writes without the lock; when it
\* is false mu_ is released and the iteration ends
RlAdvMo(n) ==
    LET st == node[n] IN
    /\ st.alive /\ st.w_pc = "rl_adv_mo"
    /\ node' = [node EXCEPT ![n] =
                  IF st.master_only
                  THEN [st EXCEPT !.w_pc = "rl_adv_cur"]
                  ELSE EndIter(st)]
    /\ UNCHANGED <<link, outages>> /\ last' = NoReport

\* line 276: sync_offset_ == current_offset_
RlAdvCur(n) ==
    LET st == node[n] IN
    /\ st.alive /\ st.w_pc = "rl_adv_cur"
    /\ node' = [node EXCEPT ![n] =
                  IF st.sync_offset = st.current_offset
                  THEN [st EXCEPT !.w_pc = "rl_adv_clear"]
                  ELSE EndIter(st)]
    /\ UNCHANGED <<link, outages>> /\ last' = NoReport

\* lines 277-281: master_only_ = false, and mu_ is released
RlAdvClear(n) ==
    LET st == node[n] IN
    /\ st.alive /\ st.w_pc = "rl_adv_clear"
    /\ node' = [node EXCEPT ![n] =
                  EndIter([st EXCEPT !.master_only = FALSE])]
    /\ UNCHANGED <<link, outages>> /\ last' = NoReport

\* line 283, applied_offset_ = current_offset_ without the lock: the load
RlDoneLoad(n) ==
    LET st == node[n] IN
    /\ st.alive /\ st.w_pc = "rl_done"
    /\ node' = [node EXCEPT ![n] =
                  [st EXCEPT !.w_cur = st.current_offset,
                             !.w_pc = "rl_done_store"]]
    /\ UNCHANGED <<link, outages>> /\ last' = NoReport

\* lines 283-284: the store to applied_offset_; log_done_.Signal() wakes a
\* caller that is inside TimeWait and is lost otherwise
RlDoneStore(n) ==
    LET st == node[n] IN
    /\ st.alive /\ st.w_pc = "rl_done_store"
    /\ node' = [node EXCEPT ![n] =
                  [st EXCEPT !.applied_offset = st.w_cur, !.w_cur = 0,
                             !.c_woken = (st.c_pc = "log_waiting"),
                             !.w_pc = "bg_wait"]]
    /\ UNCHANGED <<link, outages>> /\ last' = NoReport

(***************************************************************************)
(* MasterSlaveImpl::AppendLog (lines 172-199), the RPC the standby serves, *)
(* statement by statement.  The method takes no lock, and the RPC server   *)
(* runs every request on a thread of its pool: a request the leader sends  *)
(* again after SendRequest timed out is served while the thread of the     *)
(* first attempt may still be inside AppendLog.  Here p is the node that   *)
(* serves and h one of its threads.                                        *)
(***************************************************************************)
\* line 176: request->offset() > current_offset_
HChkGap(p, h) ==
    LET st == node[p]
        hd == st.handlers[h] IN
    /\ st.alive /\ hd.pc = "chk_gap"
    /\ node' = [node EXCEPT ![p].handlers[h].pc =
                  IF hd.offset > st.current_offset THEN "rej_gap"
                  ELSE "chk_stale"]
    /\ UNCHANGED <<link, outages>> /\ last' = NoReport

\* lines 177-180: the rejection carries current_offset_, read again
HRejGap(p, h) ==
    LET st == node[p]
        hd == st.handlers[h] IN
    /\ st.alive /\ hd.pc = "rej_gap"
    /\ node' = [node EXCEPT ![p].handlers[h] =
                  [hd EXCEPT !.resp = [success |-> FALSE,
                                       offset |-> st.current_offset],
                             !.pc = "done"]]
    /\ UNCHANGED <<link, outages>> /\ last' = NoReport

\* AppendLog that answers a stale request with its current_offset_ too
HChkStale_HintsStale(p, h) ==
    LET st == node[p]
        hd == st.handlers[h] IN
    /\ st.alive /\ hd.pc = "chk_stale"
    /\ node' = [node EXCEPT ![p].handlers[h] =
                  IF hd.offset < st.current_offset
                  THEN [hd EXCEPT !.resp = [success |-> FALSE,
                                            offset |-> st.current_offset],
                                  !.pc = "done"]
                  ELSE [hd EXCEPT !.acc = TRUE, !.pc = "wr_len"]]
    /\ UNCHANGED <<link, outages>> /\ last' = NoReport

\* lines 181-188: request->offset() < current_offset_
HChkStale(p, h) ==
    LET st == node[p]
        hd == st.handlers[h] IN
    /\ st.alive /\ hd.pc = "chk_stale"
    /\ node' = [node EXCEPT ![p].handlers[h] =
                  IF hd.offset < st.current_offset
                  THEN [hd EXCEPT !.resp = [success |-> FALSE, offset |-> -1],
                                  !.pc = "done"]
                  ELSE [hd EXCEPT !.acc = TRUE, !.pc = "wr_len"]]
    /\ UNCHANGED <<link, outages>> /\ last' = NoReport

\* line 192: write(log_, buf, 4)
HWriteLen(p, h) ==
    LET st == node[p]
        hd == st.handlers[h] IN
    /\ st.alive /\ hd.pc = "wr_len"
    /\ node' = [node EXCEPT ![p] =
                  [st EXCEPT !.log = @ \o LE32(Len(hd.data)),
                             !.handlers[h].pc = "wr_data"]]
    /\ UNCHANGED <<link, outages>> /\ last' = NoReport

\* line 193: write(log_, request->log_data().c_str(), len)
HWriteData(p, h) ==
    LET st == node[p]
        hd == st.handlers[h] IN
    /\ st.alive /\ hd.pc = "wr_data"
    /\ node' = [node EXCEPT ![p] =
                  [st EXCEPT !.log = @ \o hd.data,
                             !.handlers[h].pc = "call"]]
    /\ UNCHANGED <<link, outages>> /\ last' = NoReport

\* line 194: log_callback_(request->log_data())
HCallback(p, h) ==
    LET st == node[p]
        hd == st.handlers[h] IN
    /\ st.alive /\ hd.pc = "call"
    /\ node' = [node EXCEPT ![p] =
                  [st EXCEPT !.applied_entries = Append(@, hd.data),
                             !.handlers[h].pc = "add_read"]]
    /\ UNCHANGED <<link, outages>> /\ last' = NoReport

\* line 195, current_offset_ += len + 4: the load of current_offset_
HAddRead(p, h) ==
    LET st == node[p]
        hd == st.handlers[h] IN
    /\ st.alive /\ hd.pc = "add_read"
    /\ node' = [node EXCEPT ![p].handlers[h] =
                  [hd EXCEPT !.cur = st.current_offset, !.pc = "add_write"]]
    /\ UNCHANGED <<link, outages>> /\ last' = NoReport

\* line 195, current_offset_ += len + 4: the store of the sum
HAddWrite(p, h) ==
    LET st == node[p]
        hd == st.handlers[h] IN
    /\ st.alive /\ hd.pc = "add_write"
    /\ node' = [node EXCEPT ![p] =
                  [st EXCEPT !.current_offset = hd.cur + Len(hd.data) + 4,
                             !.handlers[h] = [hd EXCEPT !.cur = 0,
                                                        !.pc = "app_load"]]]
    /\ UNCHANGED <<link, outages>> /\ last' = NoReport

\* line 196, applied_offset_ = current_offset_: the load
HAppLoad(p, h) ==
    LET st == node[p]
        hd == st.handlers[h] IN
    /\ st.alive /\ hd.pc = "app_load"
    /\ node' = [node EXCEPT ![p].handlers[h] =
                  [hd EXCEPT !.cur = st.current_offset, !.pc = "app_store"]]
    /\ UNCHANGED <<link, outages>> /\ last' = NoReport

\* lines 196-197: the store to applied_offset_, and the response
HAppStore(p, h) ==
    LET st == node[p]
        hd == st.handlers[h] IN
    /\ st.alive /\ hd.pc = "app_store"
    /\ node' = [node EXCEPT ![p] =
                  [st EXCEPT !.applied_offset = hd.cur,
                             !.handlers[h] =
                                [hd EXCEPT !.cur = 0,
                                           !.resp = [success |-> TRUE,
                                                     offset |-> 0],
                                           !.pc = "done"]]]
    /\ UNCHANGED <<link, outages>> /\ last' = NoReport

\* done->Run(): the response goes to the replicator n if n still waits for
\* this call and the response gets through, and is dropped otherwise
HRespond(p, h) ==
    LET st == node[p]
        hd == st.handlers[h]
        n == Other(p)
        got == /\ hd.waited /\ link
               /\ node[n].alive /\ node[n].w_pc = "rl_wait"
               /\ node[n].slave_addr = p IN
    /\ st.alive /\ hd.pc = "done"
    /\ node' = [m \in Nodes |->
                  IF m = p THEN [st EXCEPT !.handlers[h] = IdleHandler]
                  ELSE IF got
                  THEN [node[m] EXCEPT !.w_resp = hd.resp, !.w_pc = "rl_resp"]
                  ELSE node[m]]
    /\ UNCHANGED <<link, outages>> /\ last' = NoReport

(***************************************************************************)
(* The network between the nodes.                                          *)
(***************************************************************************)
LinkDown ==
    /\ link /\ outages < MaxOutages
    /\ link' = FALSE
    /\ outages' = outages + 1
    /\ UNCHANGED node /\ last' = NoReport

LinkUp ==
    /\ ~link
    /\ link' = TRUE
    /\ UNCHANGED outages
    /\ node' = [n \in Nodes |-> [node[n] EXCEPT !.c_unreach = FALSE]]
    /\ last' = NoReport

(***************************************************************************)
(* The checkpoint, and the life of a process.                              *)
(***************************************************************************)
\* LogStatus (lines 327-337), the task thread_pool_ runs every 5 seconds:
\* applied_offset_ is read without the lock and applied.log is replaced
LogStatus(n) ==
    LET st == node[n] IN
    /\ st.alive
    /\ st.ckpt # LE32(st.applied_offset)
    /\ node' = [node EXCEPT ![n].ckpt = LE32(st.applied_offset)]
    /\ UNCHANGED <<link, outages>> /\ last' = NoReport

\* what is left of an instance whose process was killed: the two files and
\* the flags the next process is started with
Killed(st) ==
    [InitProc(st.role, st.master_addr, st.slave_addr, << >>, << >>, st.boots,
              TRUE)
       EXCEPT !.alive = FALSE, !.log = st.log, !.ckpt = st.ckpt,
              !.read_pos = 0, !.current_offset = 0, !.applied_offset = 0,
              !.sync_offset = 0, !.w_pc = "off"]

\* the process of node n is killed
Crash(n) ==
    LET st == node[n] IN
    /\ st.alive /\ st.boots < MaxBoots
    /\ node' = [node EXCEPT ![n] = Killed(st)]
    /\ UNCHANGED <<link, outages>> /\ last' = NoReport

\* a new process is started on node n: the constructor and Init (lines
\* 24-88), of a build with assertions or of one without
Restart(n) ==
    LET st == node[n]
        master == IF st.role = "master" THEN n ELSE Other(n)
        slave == IF st.role = "slave" THEN n ELSE Other(n) IN
    /\ ~st.alive /\ st.boots < MaxBoots
    /\ \E asserts \in BOOLEAN :
         node' = [node EXCEPT ![n] =
                    InitProc(st.role, master, slave, st.log, st.ckpt,
                             st.boots + 1, asserts)]
    /\ UNCHANGED <<link, outages>> /\ last' = NoReport

\* node n is replaced by a machine with empty disks, started with the same
\* flags
Reinstall(n) ==
    LET st == node[n]
        master == IF st.role = "master" THEN n ELSE Other(n)
        slave == IF st.role = "slave" THEN n ELSE Other(n) IN
    /\ ~st.alive /\ st.boots < MaxBoots
    /\ node' = [node EXCEPT ![n] =
                  InitProc(st.role, master, slave, << >>, << >>,
                           st.boots + 1, TRUE)]
    /\ UNCHANGED <<link, outages>> /\ last' = NoReport

\* SwitchToLeader that leaves read_log_ where it is
SwitchToLeader_KeepsCursor(n) ==
    LET st == node[n] IN
    /\ st.alive /\ ~st.is_leader
    /\ node' = [node EXCEPT ![n] =
                  [st EXCEPT !.is_leader = TRUE,
                             !.sync_offset = 0,
                             !.master_addr = st.slave_addr,
                             !.slave_addr = st.master_addr,
                             !.w_rejected = FALSE,
                             !.w_pc = "bg_wait"]]
    /\ UNCHANGED <<link, outages>> /\ last' = NoReport

(***************************************************************************)
(* SwitchToLeader (lines 159-169), called on a standby; it takes no lock.  *)
(***************************************************************************)
SwitchToLeader(n) ==
    LET st == node[n] IN
    /\ st.alive /\ ~st.is_leader
    /\ node' = [node EXCEPT ![n] =
                  [st EXCEPT !.is_leader = TRUE,
                             !.sync_offset = 0,
                             !.read_pos = 0,
                             !.master_addr = st.slave_addr,
                             !.slave_addr = st.master_addr,
                             !.w_rejected = FALSE,
                             !.w_pc = "bg_wait"]]
    /\ UNCHANGED <<link, outages>> /\ last' = NoReport

(***************************************************************************)
(* The threads.                                                            *)
(***************************************************************************)
\* the thread of a client inside the blocking Log, when its timeout is
\* longer than the run and the standby never falls behind sync_offset_
\* again: TimeWait is not left by its timeout and line 105 is not reached.
\* The loop of line 111 is still left for line 130 when the replicator has
\* shipped the entry before the caller gets there.
CallerStepNoTimeout(n) ==
    \/ LogAppend(n) \/ LogLast(n) \/ LogAddLoad(n) \/ LogAddStore(n)
    \/ LogChk(n) \/ LogChkSync(n) \/ LogWhileSync(n) \/ LogWhile(n)
    \/ LogEnterWait(n) \/ LogWake(n) \/ LogTimeout(n)

\* the thread of a client inside the blocking Log
CallerStep(n) ==
    \/ CallerStepNoTimeout(n) \/ LogFastLoad(n) \/ LogFastStore(n)
    \/ LogTimedOut(n)

\* the thread of a client inside the asynchronous Log while master_only_ is
\* false
AsyncStepQueue(n) ==
    \/ LogAsyncAppend(n) \/ LogAsyncChk(n) \/ LogAsyncInsert(n)
    \/ LogAsyncDelay(n) \/ LogAsyncAddLoad(n) \/ LogAsyncAddStore(n)

\* the thread of a client inside the asynchronous Log
AsyncStep(n) ==
    \/ AsyncStepQueue(n) \/ LogAsyncFastLoad(n) \/ LogAsyncFastStore(n)

\* a thread of thread_pool_ inside PorcessCallbck(offset, len, true)
TaskStep(n) ==
    \/ TaskFind(n) \/ TaskCall(n) \/ TaskRelock(n) \/ TaskStore(n)
    \/ TaskEnd(n)

\* the thread of BackgroundLog and ReplicateLog while every read finds its
\* record and every call is answered
WorkerStepNoLoss(n) ==
    \/ BgWake(n) \/ RlLoop(n) \/ RlLock(n) \/ RlReadLen(n) \/ RlReadData(n)
    \/ RlSendFail(n) \/ RlRetry(n) \/ RlResp(n) \/ RlPcbFind(n)
    \/ RlAdvance(n) \/ RlAdvMo(n) \/ RlDoneLoad(n) \/ RlDoneStore(n)

\* the same thread at lines 276-280 when it finds master_only_ true
WorkerStepLeave(n) == RlAdvCur(n) \/ RlAdvClear(n)

\* the same thread while callbacks_ is empty (no asynchronous Log)
WorkerStepNoCb(n) ==
    \/ WorkerStepNoLoss(n) \/ RlReadAbort(n) \/ RlReadGarbage(n)
    \/ RlRpcLost(n)

\* the callback of an asynchronous Log, called by ReplicateLog
WorkerStepCb(n) ==
    RlPcbCall(n) \/ RlPcbRelock(n) \/ RlPcbStore(n) \/ RlPcbEnd(n)

\* the thread of BackgroundLog and ReplicateLog
WorkerStep(n) ==
    WorkerStepNoCb(n) \/ WorkerStepLeave(n) \/ WorkerStepCb(n)

\* a thread of the RPC server inside AppendLog, when no request is ahead of
\* current_offset_
HandlerStepNoGap(p, h) ==
    \/ HChkGap(p, h) \/ HChkStale(p, h) \/ HWriteLen(p, h)
    \/ HWriteData(p, h) \/ HCallback(p, h) \/ HAddRead(p, h)
    \/ HAddWrite(p, h) \/ HAppLoad(p, h) \/ HAppStore(p, h)
    \/ HRespond(p, h)

\* a thread of the RPC server inside AppendLog
HandlerStep(p, h) == HandlerStepNoGap(p, h) \/ HRejGap(p, h)

\* the RPC: a request arrives at the standby, its threads run
Rpc ==
    \/ \E n \in Nodes, h \in Handlers : HArrive(n, h)
    \/ \E p \in Nodes, h \in Handlers : HandlerStep(p, h)

\* the RPC when the server of the standby runs a single thread: a request
\* waits until the thread is free
RpcSerial ==
    \/ \E n \in Nodes : HArrive(n, 1)
    \/ \E p \in Nodes : HandlerStep(p, 1)

(***************************************************************************)
(* The whole system: clients that commit with both forms of Log, timers,   *)
(* a network that fails, processes that are killed, started again or       *)
(* replaced, and the promotion of a standby.                               *)
(***************************************************************************)
Next ==
    \/ \E n \in Nodes : LogBegin(n, NextPayload(n))
    \/ \E n \in Nodes : LogAsyncBegin(n, NextPayload(n))
    \/ \E n \in Nodes : AsyncStep(n)
    \/ \E n \in Nodes : CallerStep(n)
    \/ \E n \in Nodes : Tick(n)
    \/ \E n \in Nodes : TaskStep(n)
    \/ \E n \in Nodes : WorkerStep(n)
    \/ Rpc
    \/ LinkDown
    \/ LinkUp
    \/ \E n \in Nodes : LogStatus(n)
    \/ \E n \in Nodes : Crash(n)
    \/ \E n \in Nodes : Restart(n)
    \/ \E n \in Nodes : Reinstall(n)
    \/ \E n \in Nodes : SwitchToLeader(n)

Spec == Init /\ [][Next]_vars

(***************************************************************************)
(* The environments the claims are checked in.  Each one is the system     *)
(* above with clients, network and operators that do less; the code of     *)
(* the threads is the same in all of them.                                 *)
(***************************************************************************)
\* Clients commit with the blocking Log; the network fails; the RPC server
\* of the standby runs a single thread.
NextB ==
    \/ \E n \in Nodes : LogBegin(n, NextPayload(n))
    \/ \E n \in Nodes : CallerStep(n)
    \/ \E n \in Nodes : Tick(n)
    \/ \E n \in Nodes : WorkerStepNoCb(n)
    \/ \E n \in Nodes : WorkerStepLeave(n)
    \/ RpcSerial
    \/ LinkDown
    \/ LinkUp

BlockingSpec == Init /\ [][NextB]_vars

\* Clients commit with the blocking Log and a timeout longer than the run;
\* the network fails.
NextF ==
    \/ \E n \in Nodes : LogBegin(n, NextPayload(n))
    \/ \E n \in Nodes : CallerStepNoTimeout(n)
    \/ \E n \in Nodes : WorkerStepNoCb(n)
    \/ \E n \in Nodes : WorkerStepLeave(n)
    \/ Rpc
    \/ LinkDown
    \/ LinkUp

\* Every thread of a running process is scheduled again and again.  Nothing
\* obliges a client to commit, or the network to change.
FairSpec ==
    /\ Init /\ [][NextF]_vars
    /\ \A n \in Nodes : WF_vars(CallerStepNoTimeout(n))
    /\ \A n \in Nodes : WF_vars(WorkerStepNoCb(n) \/ WorkerStepLeave(n))
    /\ \A n \in Nodes : WF_vars(\E h \in Handlers : HArrive(n, h))
    /\ \A p \in Nodes, h \in Handlers : WF_vars(HandlerStep(p, h))

\* The same clients and network, and an RPC server of the standby that runs
\* a single thread.
NextS ==
    \/ \E n \in Nodes : LogBegin(n, NextPayload(n))
    \/ \E n \in Nodes : CallerStepNoTimeout(n)
    \/ \E n \in Nodes : WorkerStepNoCb(n)
    \/ \E n \in Nodes : WorkerStepLeave(n)
    \/ RpcSerial
    \/ LinkDown
    \/ LinkUp

SerialFairSpec ==
    /\ Init /\ [][NextS]_vars
    /\ \A n \in Nodes : WF_vars(CallerStepNoTimeout(n))
    /\ \A n \in Nodes : WF_vars(WorkerStepNoCb(n) \/ WorkerStepLeave(n))
    /\ \A n \in Nodes : WF_vars(HArrive(n, 1))
    /\ \A p \in Nodes : WF_vars(HandlerStep(p, 1))

\* Clients commit with the asynchronous Log and the timeout checks run; the
\* network may be down when the leader starts, and stays up once it is up.
NextA ==
    \/ \E n \in Nodes : LogAsyncBegin(n, NextPayload(n))
    \/ \E n \in Nodes : AsyncStep(n)
    \/ \E n \in Nodes : TaskStep(n)
    \/ \E n \in Nodes : WorkerStepNoLoss(n)
    \/ \E n \in Nodes : WorkerStepLeave(n)
    \/ \E n \in Nodes : WorkerStepCb(n)
    \/ Rpc
    \/ LinkUp

AsyncSpec == Init /\ [][NextA]_vars

\* Clients commit with the asynchronous Log, the network fails, and the run
\* is shorter than the 10 seconds after which a timeout check runs.
NextL ==
    \/ \E n \in Nodes : LogAsyncBegin(n, NextPayload(n))
    \/ \E n \in Nodes : AsyncStepQueue(n)
    \/ \E n \in Nodes : WorkerStepNoCb(n)
    \/ \E n \in Nodes : WorkerStepCb(n)
    \/ Rpc
    \/ LinkDown
    \/ LinkUp

AsyncLossSpec == Init /\ [][NextL]_vars

\* the network works
InitUp == Init /\ link

\* Processes are killed at any point and started again, and LogStatus saves
\* applied_offset_; clients commit with the blocking Log and a timeout
\* longer than the run; the network works.
NextR ==
    \/ \E n \in Nodes : LogBegin(n, NextPayload(n))
    \/ \E n \in Nodes : CallerStepNoTimeout(n)
    \/ \E n \in Nodes : WorkerStepNoCb(n)
    \/ \E n \in Nodes : WorkerStepLeave(n)
    \/ Rpc
    \/ \E n \in Nodes : LogStatus(n)
    \/ \E n \in Nodes : Crash(n)
    \/ \E n \in Nodes : Restart(n)

RestartSpec == InitUp /\ [][NextR]_vars

\* A cluster at the start of a failover: the leader's log holds up to
\* MaxEntries entries, of which the standby holds a prefix; the network
\* works.
InitP ==
    /\ \E k \in 0..MaxEntries : \E j \in 0..k :
          node = [n \in Nodes |->
                    IF n = "M" THEN InitNode("master", EntrySeq(k), "M", "S")
                    ELSE InitNode("slave", EntrySeq(j), "M", "S")]
    /\ link = TRUE
    /\ outages = 0
    /\ last = NoReport

\* The failover: no client commits; processes are killed or replaced by a
\* machine with empty disks, and a standby is promoted.
NextP ==
    \/ \E n \in Nodes : WorkerStepNoCb(n)
    \/ \E n \in Nodes, h \in Handlers : HArrive(n, h)
    \/ \E p \in Nodes, h \in Handlers : HandlerStepNoGap(p, h)
    \/ \E n \in Nodes : Crash(n)
    \/ \E n \in Nodes : Reinstall(n)
    \/ \E n \in Nodes : SwitchToLeader(n)

PromoteSpec == InitP /\ [][NextP]_vars

(***************************************************************************)
(* The claims.  The leader is node "M", its standby node "S".              *)
(***************************************************************************)
ReportOps == {"log_fast", "log_ack", "log_timeout", "async_fast", "cb_ack",
              "cb_timeout"}

\* how often the callback registered under `offset` was called on node n
RECURSIVE Occurrences(_, _)
Occurrences(s, x) ==
    IF s = << >> THEN 0
    ELSE (IF Head(s) = x THEN 1 ELSE 0) + Occurrences(Tail(s), x)

CbCalls(n, offset) == Occurrences(node[n].cb_calls, offset)

\* C1: a commit reported successful while master_only is false, by an
\* operation that does not itself assign master_only = true, is of an entry
\* the standby already holds (standby current_offset >= entry end).
C1_ReportedMeansAccepted ==
    (last.op \in ReportOps /\ ~last.moRep /\ ~last.setMo)
        => last.sbRep >= last.end

\* C2: every call of the blocking Log returns.  A call whose process aborts
\* while the caller is inside Log never returns, so: no process aborts while
\* a caller is inside Log.
C2_LogReturns ==
    \A n \in Nodes :
        (node[n].c_pc \in InLog \cup {"log_wr", "log_last", "log_add",
                                       "log_add_store"})
            => node[n].alive

\* C3: on the leader, master_only false implies
\* applied_offset <= sync_offset <= current_offset.
C3_WatermarkOrder ==
    \A n \in Nodes :
        (Running(n) /\ ~node[n].master_only)
            => /\ node[n].applied_offset <= node[n].sync_offset
               /\ node[n].sync_offset <= node[n].current_offset

\* C6: a blocking Log that ran while the standby was unreachable and whose
\* timeout elapsed returns with master_only true and
\* applied_offset = current_offset.
C6_TimeoutForcesApplied ==
    (last.op = "log_timeout" /\ last.unreach /\ last.expired)
        => (last.moEnd /\ last.app = last.cur)

\* C7: the blocking Log sets master_only only when its deadline passed while
\* sync_offset was still behind current_offset.
C7_FlagOnlyOnTimeout ==
    (last.op = "log_timeout") => (last.expired /\ last.behind)

\* C10: the asynchronous Log in degraded mode with the standby behind calls
\* the callback before it returns, registers no callback, schedules no
\* timeout check, and returns with applied_offset = current_offset = the end
\* of the entry.
C10_AsyncFastPath ==
    (last.op = "async_fast")
        => /\ CbCalls("M", last.start) = 1
           /\ ~last.queued
           /\ last.cur = last.end
           /\ last.app = last.cur

\* C4: a thread of the standby that has accepted AppendLog(offset, payload)
\* (offset was equal to current_offset) and is about to answer has appended
\* the length-prefixed record at that offset, called the apply callback with
\* the payload, advanced current_offset by 4 + len to the end of the record,
\* set applied_offset to the new current_offset, and answers success.
C4_AcceptAppendsAndApplies ==
    \A p \in Nodes : \A h \in Handlers :
        LET st == node[p]
            hd == st.handlers[h]
            rd == ReadEntry(st.log, hd.offset) IN
        (st.alive /\ hd.pc = "done" /\ hd.acc)
           => /\ rd.kind = "ok" /\ rd.entry = hd.data
              /\ st.current_offset = hd.offset + 4 + Len(hd.data)
              /\ st.applied_offset = st.current_offset
              /\ st.applied_entries # << >>
              /\ st.applied_entries[Len(st.applied_entries)] = hd.data
              /\ hd.resp.success

\* thread h of node p takes a step of AppendLog from position pc
HandlerAt(p, h, pc) ==
    /\ node[p].alive /\ node'[p].alive
    /\ node[p].boots = node'[p].boots
    /\ node[p].handlers[h].pc = pc
    /\ node'[p].handlers[h].pc # pc

\* C5: a thread of the standby that finds the offset of its request
\* different from current_offset rejects and changes nothing on the standby:
\* ahead of current_offset (line 176) it answers success = false with offset
\* = current_offset, behind it (line 181) success = false with offset = -1;
\* the log, current_offset, applied_offset and the applied entries are as
\* they were, and the request is not accepted.
C5_RejectChangesNothing ==
    [][\A p \in Nodes : \A h \in Handlers :
         LET st == node[p]
             hd == st.handlers[h]
             new == node'[p].handlers[h]
             frame == node'[p] = [st EXCEPT !.handlers[h] = new] IN
         /\ (HandlerAt(p, h, "chk_gap") /\ hd.offset > st.current_offset)
              => new.pc = "rej_gap" /\ ~new.acc /\ frame
         /\ HandlerAt(p, h, "rej_gap")
              => /\ new.pc = "done" /\ ~new.acc /\ frame
                 /\ new.resp = [success |-> FALSE,
                                offset |-> st.current_offset]
         /\ (HandlerAt(p, h, "chk_stale") /\ hd.offset < st.current_offset)
              => /\ new.pc = "done" /\ ~new.acc /\ frame
                 /\ new.resp = [success |-> FALSE, offset |-> -1]]_vars

\* one thread of the standby is about to answer a stale request with -1
\* while the leader waits for it, after a gap was rejected before
C5_Witness ==
    /\ node["M"].w_rejected /\ node["M"].w_pc = "rl_wait"
    /\ \E h \in Handlers :
          LET hd == node["S"].handlers[h] IN
          /\ hd.pc = "done" /\ hd.waited /\ ~hd.acc
          /\ hd.resp = [success |-> FALSE, offset |-> -1]
          /\ hd.offset < node["S"].current_offset

Converged ==
    /\ node["M"].sync_offset = node["M"].current_offset
    /\ node["S"].current_offset = node["M"].current_offset
    /\ ~node["M"].master_only

\* no thread of node n has a step left: the process is dead, or no caller is
\* inside Log, no timeout check is pending, no RPC thread is inside
\* AppendLog and the replicator waits in BackgroundLog with nothing to send
Idle(n) ==
    LET st == node[n] IN
    \/ ~st.alive
    \/ /\ st.c_pc = "idle"
       /\ st.tasks = {}
       /\ \A h \in Handlers : st.handlers[h].pc = "idle"
       /\ \/ st.w_pc = "off"
          \/ st.w_pc = "bg_wait" /\ st.sync_offset = st.current_offset

\* the standby holds the leader's whole log
InSync == node["S"].log = node["M"].log

\* C8: when the standby is reachable and no commit is issued any more, the
\* system comes to rest in a state where the leader's sync_offset, its
\* current_offset and the standby's current_offset are equal and master_only
\* is false.  In the form a finite run refutes: a state in which the link is
\* up and no thread has a step left (the system stays in it until the next
\* commit) is such a state, at least when the standby holds the leader's
\* whole log.
C8_Converges ==
    (link /\ InSync /\ \A n \in Nodes : Idle(n)) => Converged

\* C9: a callback handed to the asynchronous Log is called exactly once:
\* never twice, and never left uncalled.  In the form a finite run refutes:
\* no callback was called twice, and no process has aborted with a callback
\* still in callbacks_.
C9_CallbackExactlyOnce ==
    \A n \in Nodes :
        /\ \A i, j \in 1..Len(node[n].cb_calls) :
              node[n].cb_calls[i] = node[n].cb_calls[j] => i = j
        /\ ~node[n].alive => node[n].callbacks = {}

\* the replicator of n holds a rejection that carries the resync offset o
GapRejected(n, o) ==
    /\ node[n].alive /\ node[n].w_pc = "rl_resp"
    /\ ~node[n].w_resp.success /\ node[n].w_resp.offset = o

\* the offsets at which a record of the log ends: what a standby that holds
\* a prefix of the log answers a gap with
ResyncOffsets == { Len(EncodeAll(EntrySeq(k))) : k \in 0..MaxEntries }

\* C11: when the standby rejects a request that is ahead of its
\* current_offset, the replicator's one rewind puts sync_offset and the read
\* cursor on the offset the standby answered, which is below the offset it
\* had sent, and goes on with the loop; and once the standby stays
\* reachable, the standby's current_offset advances beyond that offset (no
\* endless cycle of rewind and resend).
C11_GapRewindConverges ==
    /\ [][\A n \in Nodes :
            (/\ node[n].alive /\ node[n].w_pc = "rl_resp"
             /\ ~node[n].w_resp.success /\ node[n].w_resp.offset # -1
             /\ node'[n].w_pc # "rl_resp")
               => /\ node'[n].sync_offset = node[n].w_resp.offset
                  /\ node'[n].sync_offset = node'[Other(n)].current_offset
                  /\ node'[n].read_pos = node[n].w_resp.offset
                  /\ node[n].w_resp.offset < node[n].w_req
                  /\ node'[n].w_pc = "rl_loop"]_vars
    /\ (<>[]link) =>
          \A o \in ResyncOffsets :
             GapRejected("M", o) ~> (node["S"].current_offset > o)

\* every rejection carries the end of a record
C11_RejectionsAtRecordEnds ==
    \A n \in Nodes : \A o \in 0..(MaxEntries * 20) :
        GapRejected(n, o) => o \in ResyncOffsets

\* after a rewind to offset 0 the entry resent from there has been accepted
\* and acknowledged
C11_Witness ==
    /\ node["M"].w_rejected /\ node["M"].w_pc = "rl_resp"
    /\ node["M"].w_resp.success /\ node["M"].w_req = 0
    /\ node["M"].read_pos = 4 + Len(node["M"].w_entry)
    /\ node["S"].current_offset = node["M"].read_pos

\* the entries of the complete records of `file` from byte `pos` on
RECURSIVE EntriesOf(_, _)
EntriesOf(file, pos) ==
    LET r == ReadEntry(file, pos) IN
    IF r.kind = "ok" THEN << r.entry >> \o EntriesOf(file, r.pos) ELSE << >>

IsPrefix(a, b) == Len(a) <= Len(b) /\ SubSeq(b, 1, Len(a)) = a

\* C12: with one fixed leader and no promotion, whenever no thread of the
\* standby is inside AppendLog, the payloads its apply callback received are
\* the entries of its log read from offset 0, in order and once each, and
\* they are a prefix of the entries of the leader's log.
C12_ApplyOrderWithRetries ==
    (\A h \in Handlers : node["S"].handlers[h].pc = "idle")
      => /\ node["S"].applied_entries = EntriesOf(node["S"].log, 0)
         /\ IsPrefix(node["S"].applied_entries, EntriesOf(node["M"].log, 0))

\* the entries of `file` that start at byte a or later, in order
RECURSIVE EntriesStartingFrom(_, _, _)
EntriesStartingFrom(file, pos, a) ==
    LET r == ReadEntry(file, pos) IN
    IF r.kind # "ok" THEN << >>
    ELSE (IF pos >= a THEN << r.entry >> ELSE << >>)
            \o EntriesStartingFrom(file, r.pos, a)

\* every record of `file` is complete
Complete(file) == EncodeAll(EntriesOf(file, 0)) = file

\* the applied_offset an applied.log holds; 0 when there is no such file
SavedApplied(ckpt) == IF ckpt = << >> THEN 0 ELSE DecodeLE32(ckpt)

\* Init has just run on the files `log` and `ckpt` and left the instance st
InitReplayed(log, ckpt, st) ==
    LET a == SavedApplied(ckpt)
        e == Len(log) IN
    (Complete(log) /\ a <= e)
        => /\ st.alive
           /\ st.boot_calls = EntriesStartingFrom(log, 0, a)
           /\ st.applied_entries = st.boot_calls
           /\ st.applied_offset = e /\ st.sync_offset = e
           /\ st.current_offset = e
           /\ st.log = log

\* C13: Init on a node whose checkpoint holds applied_offset = a and whose
\* log of complete records ends at e >= a calls the apply callback exactly
\* once for each entry that starts in [a, e), in offset order, and for no
\* entry that starts before a, and ends with applied_offset = sync_offset =
\* current_offset = e; without a checkpoint file a is 0 and the whole log is
\* replayed (the first start of every node, and every later restart).
C13_InitReplaysFromCheckpoint ==
    /\ \A n \in Nodes : InitReplayed(node[n].log, << >>, node[n])
    /\ [][\A n \in Nodes :
            (node'[n].boots # node[n].boots)
               => InitReplayed(node[n].log, node[n].ckpt, node'[n])]_vars

\* SwitchToLeader runs on node n in this step
Promoted(n) == node[n].alive /\ ~node[n].is_leader /\ node'[n].is_leader

\* node n was promoted and its standby has rejected nothing since
ShipsInOrder(st) ==
    (st.alive /\ st.is_leader /\ st.role = "slave" /\ ~st.w_rejected)
        => /\ st.w_pc \in {"bg_wait", "rl_loop", "rl_lock", "rl_read",
                           "rl_done", "rl_done_store", "rl_adv_mo",
                           "rl_adv_cur", "rl_adv_clear"}
              => st.read_pos = st.sync_offset
           /\ st.w_pc = "rl_read_data" => st.read_pos = st.sync_offset + 4
           /\ st.w_pc \in {"rl_send", "rl_sleep", "rl_wait", "rl_resp",
                           "pcb_find", "pcb_call", "pcb_relock", "pcb_store",
                           "pcb_after", "rl_adv"}
              => LET rd == ReadEntry(st.log, st.sync_offset) IN
                 /\ st.w_req = st.sync_offset
                 /\ rd.kind = "ok" /\ rd.entry = st.w_entry
                 /\ rd.pos = st.read_pos

\* C14: SwitchToLeader on a standby sets is_leader, sets sync_offset to 0,
\* rewinds the read cursor to 0, swaps master and slave address and starts
\* the replicator, and leaves current_offset, applied_offset, the log,
\* master_only and the callback table as they were; from then on, as long as
\* the new standby has rejected nothing, each request of the replicator
\* carries sync_offset and the log entry that starts there, the first one at
\* offset 0 and each next one right behind the entry just accepted.
C14_PromoteResetsAndReships ==
    [][\A n \in Nodes :
         /\ Promoted(n)
              => /\ node'[n].sync_offset = 0
                 /\ node'[n].read_pos = 0
                 /\ node'[n].master_addr = node[n].slave_addr
                 /\ node'[n].slave_addr = node[n].master_addr
                 /\ node'[n].w_pc = "bg_wait"
                 /\ node'[n].alive
                 /\ node'[n].current_offset = node[n].current_offset
                 /\ node'[n].applied_offset = node[n].applied_offset
                 /\ node'[n].log = node[n].log
                 /\ node'[n].master_only = node[n].master_only
                 /\ node'[n].callbacks = node[n].callbacks
         /\ ShipsInOrder(node'[n])]_vars

\* the promoted node has shipped its log of two entries, from offset 0, to a
\* new standby that accepted both
C14_Witness ==
    /\ node["S"].alive /\ node["S"].is_leader /\ ~node["S"].w_rejected
    /\ CountEntries(node["S"].log, 0) = 2
    /\ node["S"].sync_offset = node["S"].current_offset
    /\ node["M"].alive /\ node["M"].log = node["S"].log
    /\ node["M"].boots = 1

\* C15: every AppendLog request the replicator sends carries sync_offset and
\* the log entry that starts at sync_offset, and the read cursor is at
\* sync_offset whenever the replicator is about to read an entry (so that
\* after a stale rejection the same entry goes out again at the same offset).
C15_RequestIsEntryAtSyncOffset ==
    \A n \in Nodes :
        LET st == node[n]
            rd == ReadEntry(st.log, st.sync_offset) IN
        /\ (st.alive /\ st.w_pc = "rl_read") => st.read_pos = st.sync_offset
        /\ (st.alive /\ st.w_pc = "rl_send")
              => /\ st.w_req = st.sync_offset
                 /\ rd.kind = "ok" /\ rd.entry = st.w_entry

\* C16: the timeout-check task of an asynchronous commit.  If the callback
\* is still registered, the task removes it (and nothing else), calls it
\* once, never lowers applied_offset, and when it finishes applied_offset is
\* at least the entry's end and master_only is true, sync_offset and
\* current_offset untouched.  If the callback is gone, the task calls
\* nothing and changes neither master_only nor a watermark nor the callback
\* table.
C16_TimeoutTaskActsOnlyIfPending ==
    [][\A n \in Nodes :
         LET st == node[n]
             new == node'[n] IN
         \A t \in st.tasks :
            (st.alive /\ t \notin new.tasks)
               => /\ (t.pc = "sched" /\ t.offset \in st.callbacks)
                       => /\ new.callbacks = st.callbacks \ {t.offset}
                          /\ new.tasks = (st.tasks \ {t})
                                            \cup {[t EXCEPT !.pc = "call"]}
                          /\ new = [st EXCEPT !.callbacks = new.callbacks,
                                              !.tasks = new.tasks]
                  /\ (t.pc = "sched" /\ t.offset \notin st.callbacks)
                       => new = [st EXCEPT !.tasks = @ \ {t}]
                  /\ (t.pc = "call")
                       => /\ new.cb_calls = Append(st.cb_calls, t.offset)
                          /\ [t EXCEPT !.pc = "relock",
                                       !.moRep = st.master_only,
                                       !.sbRep = SbCur(n)] \in new.tasks
                  /\ (t.pc \in {"relock", "store"})
                       => /\ new.applied_offset >= st.applied_offset
                          /\ new = [st EXCEPT
                                      !.applied_offset = new.applied_offset,
                                      !.tasks = new.tasks]
                  /\ (t.pc = "after")
                       => /\ new.applied_offset >= t.offset + t.len
                          /\ new.master_only
                          /\ new.sync_offset = st.sync_offset
                          /\ new.current_offset = st.current_offset
                          /\ new.callbacks = st.callbacks
                          /\ new.cb_calls = st.cb_calls]_vars

\* C17: while both processes run, the leader's sync_offset does not exceed
\* the standby's current_offset, whatever commits, replicator steps, RPC
\* failures and restarts of either node came before.
C17_SyncWithinStandby ==
    (node["M"].alive /\ node["S"].alive /\ node["M"].is_leader)
        => node["M"].sync_offset <= node["S"].current_offset

\* the end of the last complete record of `file`
CompleteEnd(file) == Len(EncodeAll(EntriesOf(file, 0)))

\* the replicator of n runs ReadEntry in this step and does not get an entry
ReplicatorReadFails(n) ==
    /\ node[n].alive /\ node[n].w_pc \in {"rl_read", "rl_read_data"}
    /\ \/ node[n].w_pc = "rl_read" /\ Len(node[n].log) - node[n].read_pos < 4
       \/ /\ node[n].w_pc = "rl_read_data"
          /\ Len(node[n].log) - node[n].read_pos < node[n].w_len
    /\ node'[n] # node[n]

\* C18: a read that finds an incomplete record, or the end of the log, does
\* not abort the process, neither in a replication pass nor in the replay of
\* Init: the pass ends (the replicator goes back to wait, Init completes) and
\* applied_offset and sync_offset are not moved past the last complete entry.
C18_ShortReadEndsPass ==
    [][\A n \in Nodes :
         /\ ReplicatorReadFails(n)
              => /\ node'[n].alive
                 /\ node'[n].w_pc = "bg_wait"
                 /\ node'[n].sync_offset = node[n].sync_offset
                 /\ node'[n].applied_offset = node[n].applied_offset
         /\ (node'[n].boots # node[n].boots /\ ~Complete(node[n].log))
              => /\ node'[n].alive
                 /\ node'[n].applied_offset <= CompleteEnd(node[n].log)
                 /\ node'[n].sync_offset <= CompleteEnd(node[n].log)]_vars

\* C19: of two AppendLog requests with the same offset that the threads of a
\* standby handle at the same time, at most one passes the tests of lines
\* 176-188 and is accepted.
C19_AtMostOneAccepted ==
    \A p \in Nodes : \A h1, h2 \in Handlers :
        LET a == node[p].handlers[h1]
            b == node[p].handlers[h2] IN
        (h1 # h2 /\ a.pc # "idle" /\ b.pc # "idle" /\ a.offset = b.offset)
          => ~(a.acc /\ b.acc)

\* the step of the replicator of n that leaves lines 262-271 with a rejection
\* that carries an offset
RewindStep(n) ==
    /\ node[n].w_pc = "rl_resp" /\ node'[n].w_pc # "rl_resp"
    /\ ~node[n].w_resp.success /\ node[n].w_resp.offset # -1

\* the step of the replicator of n that runs lines 273-281 after a successful
\* response
AckStep(n) == node[n].w_pc = "rl_adv" /\ node'[n].w_pc # "rl_adv"

\* the step is one of a running leader
LeaderStep(n) ==
    /\ node[n].alive /\ node'[n].alive
    /\ node[n].is_leader /\ node'[n].is_leader
    /\ node'[n].boots = node[n].boots

\* C20: on the leader current_offset and applied_offset never decrease;
\* sync_offset decreases only in the rewind after a rejection that carries an
\* offset, which is lower than the offset sent; a successful acknowledgement
\* raises sync_offset by exactly 4 + len(payload) of the acknowledged entry.
C20_LeaderOffsetsMonotone ==
    [][\A n \in Nodes : LeaderStep(n) =>
         /\ node'[n].current_offset >= node[n].current_offset
         /\ node'[n].applied_offset >= node[n].applied_offset
         /\ node'[n].sync_offset < node[n].sync_offset =>
               /\ RewindStep(n)
               /\ node'[n].sync_offset = node[n].w_resp.offset
         /\ RewindStep(n) => node[n].w_resp.offset < node[n].w_req
         /\ AckStep(n) =>
               node'[n].sync_offset
                 = node[n].sync_offset + 4 + Len(node[n].w_entry)]_vars

====
